---- MODULE Spec2Model ----
(***************************************************************************)
(* SecurityService (lib/security): access permissions, audit log, security *)
(* score, and their persistence in localStorage.  One service instance in  *)
(* a browser session (typeof window !== "undefined"); every handler runs   *)
(* to completion at one reading of Date.now().                             *)
(***************************************************************************)
EXTENDS Integers, Sequences, FiniteSets, TLC

VARIABLES
    now,                \* Date.now(), in milliseconds
    auditLogs,          \* SecurityService.auditLogs
    permissions,        \* SecurityService.permissions
    storedLogs,         \* localStorage item "security_audit_logs"
    storedPermissions,  \* localStorage item "access_permissions"
    permSeq,            \* permission ids generated so far (ids are fresh)
    auditSeq,           \* audit ids generated so far
    writeFailures,      \* localStorage.setItem calls that threw so far
    granted,            \* history: the grantAccess calls made, in order
    last,               \* the last call and what it returned or threw
    web3,               \* useWeb3: isConnected and account of each component that calls it
    storedAuth,         \* localStorage item "healthchain_auth"
    auth,               \* useAuth: isAuthenticated, authData, isLoading
    walletConnect       \* WalletConnect: authStep, authError, isAuthenticating

\* the variables of the hooks and of the WalletConnect component
uiVars == <<web3, storedAuth, auth, walletConnect>>
\* the variables of the SecurityService and of its storage
serviceVars == <<auditLogs, permissions, storedLogs, storedPermissions, permSeq, auditSeq,
                 writeFailures, granted>>

vars == <<now, auditLogs, permissions, storedLogs, storedPermissions, permSeq, auditSeq,
         writeFailures, granted, last, web3, storedAuth, auth, walletConnect>>

(***************************************************************************)
(* Bounds of the model                                                     *)
(***************************************************************************)
MaxPerms == 2           \* grants per behaviour
MaxLog == 3             \* audit events per behaviour
MaxWriteFailures == 1   \* failed localStorage writes per behaviour
MaxHours == 1           \* the clock runs from 0 to MaxHours hours

(***************************************************************************)
(* Program constants                                                       *)
(***************************************************************************)
HourMs == 60 * 60 * 1000
WeekMs == 7 * 24 * 60 * 60 * 1000
ScoreLogLimit == 100
MaxFreePermissions == 10

(***************************************************************************)
(* Inputs                                                                  *)
(***************************************************************************)
\* grantAccess(granterAddress, granteeAddress, resourceId, resourceType, permissions,
\* expiresInHours)
GrantInputs ==
    { <<"a", "B", "rec1", "record", <<"read">>, 1>>,
      <<"a", "B", "rec1", "record", <<"read">>, 0>>,
      <<"a", "B", "rec1", "record", << >>, 1>>,
      <<"b", "a", "rec2", "record", <<"read", "write">>, 2>> }
\* revokeAccess(granterAddress, permissionId)
RevokeInputs == {"a", "A", "b"} \X (0 .. MaxPerms - 1)
\* checkAccess(userAddress, resourceId, requiredPermission)
CheckInputs ==
    { <<"b", "rec1", "read">>,
      <<"b", "rec2", "read">>,
      <<"a", "rec1", "read">>,
      <<"A", "rec2", "write">> }

\* the inputs of SpecQuota
GrantInputsQ == { <<"a", "B", "rec1", "record", <<"read">>, 1>> }
RevokeInputsQ == {<<"a", 0>>, <<"b", 0>>, <<"a", 1>>}
CheckInputsQ == { <<"b", "rec1", "read">> }

\* String.prototype.toLowerCase on the addresses used here
toLowerCase(s) ==
    CASE s = "A" -> "a"
      [] s = "B" -> "b"
      [] OTHER -> s

\* Array.prototype.includes
includes(arr, x) == \E i \in DOMAIN arr : arr[i] = x

(***************************************************************************)
(* localStorage: an item is absent (getItem gives null), holds the JSON    *)
(* text of an array, or holds a text that is not JSON.  The stored records *)
(* hold only strings, booleans, finite integers and arrays of strings,     *)
(* which JSON.parse(JSON.stringify) gives back field by field.             *)
(***************************************************************************)
NoItem == [kind |-> "null", text |-> << >>]
Malformed == [kind |-> "malformed", text |-> << >>]
JSONstringify(arr) == [kind |-> "json", text |-> arr]
JSONparse(item) == item.text
\* JSON.parse throws SyntaxError on the item
ParseThrows(item) == item.kind = "malformed"
IsTruthy(item) == item.kind # "null"
\* what loadStoredData leaves in a field that was empty: the parsed item, or nothing
\* when there is no item
StoredArray(item) == IF IsTruthy(item) THEN JSONparse(item) ELSE << >>

(***************************************************************************)
(* The outcome of a call                                                   *)
(***************************************************************************)
NoCall == [op |-> "none", res |-> "", val |-> -1]
Call(op, res, val) == [op |-> op, res |-> res, val |-> val]

QuotaExceeded == "throws QuotaExceededError"
NotFoundOrUnauthorized == "throws Permission not found or unauthorized"
SyntaxError == "throws SyntaxError"

(***************************************************************************)
(* logSecurityEvent: the audit record it pushes                            *)
(***************************************************************************)
\* details is the text of the event as the list of its parts; ipAddress and userAgent
\* are the same in every event of a session and are left out
Audit(id, action, userAddress, resourceId, success, riskLevel, details) ==
    [id |-> id, timestamp |-> now, action |-> action,
     userAddress |-> userAddress, resourceId |-> resourceId,
     success |-> success, riskLevel |-> riskLevel, details |-> details]

\* an event logged without details
NoDetails == << >>

(***************************************************************************)
(* The hooks and the WalletConnect component after their first render      *)
(***************************************************************************)
\* the components that call useWeb3(); each call has a state of its own
Hooks == {"useAuth", "WalletConnect"}
\* null, as a state or as a parsed JSON value
null == [null |-> TRUE]
\* no signature request is awaited
NoRequest == [account |-> "", timestamp |-> -1]
\* the dependencies of an effect that has not run yet
NotRun == << >>

InitUI ==
    /\ web3 = [h \in Hooks |-> [isConnected |-> FALSE, account |-> "", mounted |-> FALSE]]
    /\ storedAuth = NoItem
    /\ auth = [isAuthenticated |-> FALSE, authData |-> null, isLoading |-> TRUE,
               deps |-> NotRun]
    /\ walletConnect = [authStep |-> "connect", authError |-> "", isAuthenticating |-> FALSE,
                        request |-> NoRequest, deps |-> NotRun, timer |-> FALSE]

Init ==
    /\ now = 0
    /\ auditLogs = << >>
    /\ permissions = << >>
    /\ storedLogs = NoItem
    /\ storedPermissions = NoItem
    /\ permSeq = 0
    /\ auditSeq = 0
    /\ writeFailures = 0
    /\ granted = << >>
    /\ last = NoCall
    /\ InitUI

\* time passes between calls
Tick ==
    /\ now + HourMs <= MaxHours * HourMs
    /\ now' = now + HourMs
    /\ UNCHANGED <<uiVars, auditLogs, permissions, storedLogs, storedPermissions, permSeq, auditSeq,
                   writeFailures, granted, last>>

\* mutant: the write stores the newest element only
setItem_delta(item, arr, ok) == IF ok THEN JSONstringify(<<arr[Len(arr)]>>) ELSE item

\* savePermissions / saveAuditLogs: localStorage.setItem replaces the item,
\* or throws (quota) and leaves it as it was
setItem(item, arr, ok) == IF ok THEN JSONstringify(arr) ELSE item

\* mutant: savePermissions catches the error of setItem
savePermissionsThrows_swallowed(ok) == FALSE

\* savePermissions has no try block: the error of setItem leaves grantAccess or
\* revokeAccess at the call of savePermissions
savePermissionsThrows(ok) == ~ok

\* the writes of one call: the permission write, then (when that one did not throw)
\* the audit-log write
Writes(wrotePerms, permSaveOk, wroteLogs, logSaveOk) ==
    LET failed == IF wrotePerms /\ ~permSaveOk THEN 1
                  ELSE IF wroteLogs /\ ~logSaveOk THEN 1 ELSE 0
    IN /\ writeFailures + failed <= MaxWriteFailures
       /\ ~wrotePerms => permSaveOk
       /\ (~wroteLogs \/ (wrotePerms /\ ~permSaveOk)) => logSaveOk
       /\ writeFailures' = writeFailures + failed

\* mutant: the permission is built inactive
NewPermission_inactive(granter, grantee, rid, rtype, perms, hours) ==
    [id |-> permSeq, granterAddress |-> granter, granteeAddress |-> grantee,
     resourceId |-> rid, resourceType |-> rtype, permissions |-> perms,
     expiresAt |-> now + hours * HourMs, createdAt |-> now, isActive |-> FALSE]

\* grantAccess: the permission record it builds
NewPermission(granter, grantee, rid, rtype, perms, hours) ==
    [id |-> permSeq, granterAddress |-> granter, granteeAddress |-> grantee,
     resourceId |-> rid, resourceType |-> rtype, permissions |-> perms,
     expiresAt |-> now + hours * HourMs, createdAt |-> now, isActive |-> TRUE]

GrantAccess(granter, grantee, rid, rtype, perms, hours, permSaveOk, logSaveOk) ==
    /\ Writes(TRUE, permSaveOk, TRUE, logSaveOk)
    /\ LET pushed == Append(permissions,
                            NewPermission(granter, grantee, rid, rtype, perms, hours))
           logged == Append(auditLogs,
                            Audit(auditSeq, "Access Granted", granter, rid, TRUE, "medium",
                                  <<"Granted">> \o perms \o <<"to", grantee>>))
       IN /\ permissions' = pushed
          /\ permSeq' = permSeq + 1
          /\ granted' = Append(granted, [id |-> permSeq, at |-> now, hours |-> hours,
                                         granter |-> granter, grantee |-> grantee,
                                         rid |-> rid, perms |-> perms])
          /\ storedPermissions' = setItem(storedPermissions, pushed, permSaveOk)
          /\ IF ~savePermissionsThrows(permSaveOk)
             THEN /\ auditLogs' = logged
                  /\ auditSeq' = auditSeq + 1
                  /\ storedLogs' = setItem(storedLogs, logged, logSaveOk)
                  /\ last' = Call("grant", IF logSaveOk THEN "ok" ELSE QuotaExceeded,
                                  IF logSaveOk THEN permSeq ELSE -1)
             ELSE /\ UNCHANGED <<auditLogs, auditSeq, storedLogs>>
                  /\ last' = Call("grant", QuotaExceeded, -1)
    /\ UNCHANGED <<uiVars, now>>

\* mutant: the lookup forgets the granter
FindPermission_anyGranter(granter, pid) ==
    LET hits == {i \in DOMAIN permissions : permissions[i].id = pid}
    IN IF hits = {} THEN 0 ELSE CHOOSE i \in hits : \A j \in hits : i <= j

\* mutant: the lookup skips permissions that are no longer active
FindPermission_activeOnly(granter, pid) ==
    LET hits == {i \in DOMAIN permissions :
                    /\ permissions[i].id = pid
                    /\ permissions[i].granterAddress = granter
                    /\ permissions[i].isActive}
    IN IF hits = {} THEN 0 ELSE CHOOSE i \in hits : \A j \in hits : i <= j

\* this.permissions.find(p => p.id === permissionId && p.granterAddress === granterAddress):
\* the index of the first such permission, 0 when there is none
FindPermission(granter, pid) ==
    LET hits == {i \in DOMAIN permissions :
                    /\ permissions[i].id = pid
                    /\ permissions[i].granterAddress = granter}
    IN IF hits = {} THEN 0 ELSE CHOOSE i \in hits : \A j \in hits : i <= j

\* mutant: every permission of the store is deactivated
Deactivate_all(perms, i) == [k \in DOMAIN perms |-> [perms[k] EXCEPT !.isActive = FALSE]]

\* permission.isActive = false, on the permission found
Deactivate(perms, i) == [perms EXCEPT ![i].isActive = FALSE]

RevokeAccess(granter, pid, permSaveOk, logSaveOk) ==
    LET i == FindPermission(granter, pid)
    IN IF i = 0
       THEN /\ Writes(FALSE, permSaveOk, FALSE, logSaveOk)
            /\ last' = Call("revoke", NotFoundOrUnauthorized, -1)
            /\ UNCHANGED <<uiVars, now, auditLogs, permissions, storedLogs, storedPermissions,
                           permSeq, auditSeq, granted>>
       ELSE LET revoked == Deactivate(permissions, i)
                logged == Append(auditLogs,
                                 Audit(auditSeq, "Access Revoked", granter, permissions[i].resourceId,
                                       TRUE, "medium",
                                       <<"Revoked access from", permissions[i].granteeAddress>>))
            IN /\ Writes(TRUE, permSaveOk, TRUE, logSaveOk)
               /\ permissions' = revoked
               /\ storedPermissions' = setItem(storedPermissions, revoked, permSaveOk)
               /\ IF ~savePermissionsThrows(permSaveOk)
                  THEN /\ auditLogs' = logged
                       /\ auditSeq' = auditSeq + 1
                       /\ storedLogs' = setItem(storedLogs, logged, logSaveOk)
                       /\ last' = Call("revoke", IF logSaveOk THEN "ok" ELSE QuotaExceeded, -1)
                  ELSE /\ UNCHANGED <<auditLogs, auditSeq, storedLogs>>
                       /\ last' = Call("revoke", QuotaExceeded, -1)
               /\ UNCHANGED <<uiVars, now, permSeq, granted>>

\* mutant: a permission still counts at the instant it expires
ValidOf_atExpiry(perms, t, userAddress, rid, requiredPermission) ==
    SelectSeq(perms,
              LAMBDA p : /\ toLowerCase(p.granteeAddress) = toLowerCase(userAddress)
                         /\ p.resourceId = rid
                         /\ p.isActive
                         /\ p.expiresAt >= t
                         /\ includes(p.permissions, requiredPermission))

\* mutant: the grantee is compared as written
ValidOf_caseSensitive(perms, t, userAddress, rid, requiredPermission) ==
    SelectSeq(perms,
              LAMBDA p : /\ p.granteeAddress = userAddress
                         /\ p.resourceId = rid
                         /\ p.isActive
                         /\ p.expiresAt > t
                         /\ includes(p.permissions, requiredPermission))

\* checkAccess: the filter, over the permissions perms at time t
ValidOf(perms, t, userAddress, rid, requiredPermission) ==
    SelectSeq(perms,
              LAMBDA p : /\ toLowerCase(p.granteeAddress) = toLowerCase(userAddress)
                         /\ p.resourceId = rid
                         /\ p.isActive
                         /\ p.expiresAt > t
                         /\ includes(p.permissions, requiredPermission))

ValidPermissions(userAddress, rid, requiredPermission) ==
    ValidOf(permissions, now, userAddress, rid, requiredPermission)

\* checkAccess: const hasAccess = validPermissions.length > 0
\* mutant: the verdict does not look at the store
hasAccess_always(userAddress, rid, requiredPermission) == TRUE

hasAccess(userAddress, rid, requiredPermission) ==
    Len(ValidPermissions(userAddress, rid, requiredPermission)) > 0

CheckAccess(userAddress, rid, requiredPermission, logSaveOk) ==
    /\ Writes(FALSE, TRUE, TRUE, logSaveOk)
    /\ LET access == hasAccess(userAddress, rid, requiredPermission)
           logged == Append(auditLogs,
                            Audit(auditSeq, "Access Check", userAddress, rid, access,
                                  IF access THEN "low" ELSE "medium",
                                  <<"Checked", requiredPermission, "permission">>))
       IN /\ auditLogs' = logged
          /\ auditSeq' = auditSeq + 1
          /\ storedLogs' = setItem(storedLogs, logged, logSaveOk)
          /\ last' = Call("check", IF ~logSaveOk THEN QuotaExceeded
                                   ELSE IF access THEN "true" ELSE "false", -1)
    /\ UNCHANGED <<uiVars, now, permissions, storedPermissions, permSeq, granted>>

\* loadStoredData: the audit log is read first; a JSON.parse that throws ends the call
LoadStoredData ==
    /\ IF IsTruthy(storedLogs) /\ ParseThrows(storedLogs)
       THEN /\ UNCHANGED <<auditLogs, permissions>>
            /\ last' = Call("load", SyntaxError, -1)
       ELSE /\ auditLogs' = IF IsTruthy(storedLogs) THEN JSONparse(storedLogs) ELSE auditLogs
            /\ IF IsTruthy(storedPermissions) /\ ParseThrows(storedPermissions)
               THEN /\ UNCHANGED permissions
                    /\ last' = Call("load", SyntaxError, -1)
               ELSE /\ permissions' = IF IsTruthy(storedPermissions)
                                      THEN JSONparse(storedPermissions)
                                      ELSE permissions
                    /\ last' = Call("load", "ok", -1)
    /\ UNCHANGED <<uiVars, now, storedLogs, storedPermissions, permSeq, auditSeq, writeFailures,
                   granted>>

(***************************************************************************)
(* Encryption gateway                                                      *)
(***************************************************************************)
\* mutant: one key for every address
KeySlice_shared(userAddress) == <<"keccak256", "healthchain_key">>

\* deriveEncryptionKey(userAddress).slice(0, 16): the head of
\* keccak256(userAddress + "healthchain_key"), one value per spelling of the address
KeySlice(userAddress) == <<"keccak256", userAddress, "healthchain_key">>

\* a string is the sequence of its UTF-16 code units
Latin1(str) == \A i \in DOMAIN str : str[i] <= 255

\* what encryptData returns: btoa(JSON.stringify({data, key, timestamp})).  btoa
\* accepts a text whose code units are all below 256 and throws on any other;
\* JSON.stringify leaves the characters of data above 255 as they are, the key is
\* hexadecimal and the timestamp decimal, so btoa accepts the text exactly when data
\* is Latin1.  atob and JSON.parse give back the three fields of an accepted text.
Ciphertext(data, userAddress, timestamp) ==
    [wellFormed |-> TRUE, data |-> data, key |-> KeySlice(userAddress),
     timestamp |-> timestamp]
\* a string that atob or JSON.parse rejects
Garbage == [wellFormed |-> FALSE, data |-> << >>, key |-> << >>, timestamp |-> 0]

\* AuditEvent.resourceId of an event that names no resource
NoResource == "undefined"

DecryptFailed == "throws Failed to decrypt data"
InvalidCharacter == "throws InvalidCharacterError"

\* error.message of the errors the catch blocks log
InvalidKeyMessage == <<"Invalid decryption key">>
ParseErrorMessage == <<"message of the atob or JSON.parse error">>
BtoaErrorMessage == <<"message of the btoa error">>
QuotaErrorMessage == <<"message of the setItem error">>

\* encryptData: the audit write of the success path throws inside the try block, so
\* the catch block logs "Encryption Failed" after "Data Encrypted" and rethrows
EncryptData(data, userAddress, logSaveOk, catchSaveOk) ==
    LET encoded == Latin1(data)
        encrypted == Audit(auditSeq, "Data Encrypted", userAddress, NoResource, TRUE, "low",
                           NoDetails)
        failedAt(id, message) ==
            Audit(id, "Encryption Failed", userAddress, NoResource, FALSE, "high", message)
        failures == (IF ~logSaveOk THEN 1 ELSE 0)
                    + (IF encoded /\ ~logSaveOk /\ ~catchSaveOk THEN 1 ELSE 0)
    IN /\ writeFailures + failures <= MaxWriteFailures
       /\ (~encoded \/ logSaveOk) => catchSaveOk
       /\ writeFailures' = writeFailures + failures
       /\ IF encoded
          THEN IF logSaveOk
               THEN /\ auditLogs' = Append(auditLogs, encrypted)
                    /\ auditSeq' = auditSeq + 1
                    /\ storedLogs' = JSONstringify(auditLogs')
                    /\ last' = Call("encrypt", "ok", Ciphertext(data, userAddress, now))
               ELSE /\ auditLogs' = auditLogs
                                       \o <<encrypted, failedAt(auditSeq + 1, QuotaErrorMessage)>>
                    /\ auditSeq' = auditSeq + 2
                    /\ storedLogs' = setItem(storedLogs, auditLogs', catchSaveOk)
                    /\ last' = Call("encrypt", QuotaExceeded, -1)
          ELSE /\ auditLogs' = Append(auditLogs, failedAt(auditSeq, BtoaErrorMessage))
               /\ auditSeq' = auditSeq + 1
               /\ storedLogs' = setItem(storedLogs, auditLogs', logSaveOk)
               /\ last' = Call("encrypt",
                               IF logSaveOk THEN InvalidCharacter ELSE QuotaExceeded, -1)
       /\ UNCHANGED <<uiVars, now, permissions, storedPermissions, permSeq, granted>>

\* decryptData while every write succeeds: what it returns or throws
Decoded(encryptedData, userAddress) ==
    IF encryptedData.wellFormed /\ encryptedData.key = KeySlice(userAddress)
    THEN Call("decrypt", "ok", encryptedData.data)
    ELSE Call("decrypt", DecryptFailed, -1)

\* decryptData: the audit write of the success path throws inside the try block, so
\* the catch block logs "Decryption Failed" after "Data Decrypted"
DecryptData(encryptedData, userAddress, logSaveOk, catchSaveOk) ==
    LET keyMatches == encryptedData.wellFormed /\ encryptedData.key = KeySlice(userAddress)
        decrypted == Audit(auditSeq, "Data Decrypted", userAddress, NoResource, TRUE, "low",
                           NoDetails)
        failedAt(id, message) ==
            Audit(id, "Decryption Failed", userAddress, NoResource, FALSE, "high", message)
        thrown == IF encryptedData.wellFormed THEN InvalidKeyMessage ELSE ParseErrorMessage
        failures == (IF ~logSaveOk THEN 1 ELSE 0)
                    + (IF keyMatches /\ ~logSaveOk /\ ~catchSaveOk THEN 1 ELSE 0)
    IN /\ writeFailures + failures <= MaxWriteFailures
       /\ (~keyMatches \/ logSaveOk) => catchSaveOk
       /\ writeFailures' = writeFailures + failures
       /\ IF keyMatches
          THEN IF logSaveOk
               THEN /\ auditLogs' = Append(auditLogs, decrypted)
                    /\ auditSeq' = auditSeq + 1
                    /\ storedLogs' = JSONstringify(auditLogs')
                    /\ last' = Decoded(encryptedData, userAddress)
               ELSE /\ auditLogs' = auditLogs
                                       \o <<decrypted, failedAt(auditSeq + 1, QuotaErrorMessage)>>
                    /\ auditSeq' = auditSeq + 2
                    /\ storedLogs' = setItem(storedLogs, auditLogs', catchSaveOk)
                    /\ last' = Call("decrypt",
                                    IF catchSaveOk THEN DecryptFailed ELSE QuotaExceeded, -1)
          ELSE /\ auditLogs' = Append(auditLogs, failedAt(auditSeq, thrown))
               /\ auditSeq' = auditSeq + 1
               /\ storedLogs' = setItem(storedLogs, auditLogs', logSaveOk)
               /\ last' = IF logSaveOk THEN Decoded(encryptedData, userAddress)
                          ELSE Call("decrypt", QuotaExceeded, -1)
       /\ UNCHANGED <<uiVars, now, permissions, storedPermissions, permSeq, granted>>

(***************************************************************************)
(* Audit queries and the security score                                    *)
(***************************************************************************)
Min(x, y) == IF x <= y THEN x ELSE y
Max(x, y) == IF x >= y THEN x ELSE y

\* [...logs].sort((a, b) => b.timestamp - a.timestamp): Array.prototype.sort is
\* stable, so the result lists the timestamps from the latest down and, within one
\* timestamp, the events in the order they have in logs
RECURSIVE LatestFirst(_, _)
LatestFirst(logs, stamps) ==
    IF stamps = {} THEN << >>
    ELSE LET t == CHOOSE x \in stamps : \A y \in stamps : y <= x
         IN SelectSeq(logs, LAMBDA e : e.timestamp = t) \o LatestFirst(logs, stamps \ {t})
sortByTimestampDesc(logs) == LatestFirst(logs, {logs[i].timestamp : i \in DOMAIN logs})

\* Array.prototype.slice(0, limit)
slice0(arr, limit) ==
    IF limit >= 0 THEN SubSeq(arr, 1, Min(limit, Len(arr)))
    ELSE SubSeq(arr, 1, Max(0, Len(arr) + limit))

\* an absent or empty userAddress argument
NoUser == ""

\* mutant: the log is cut to the limit before it is filtered
QueryLogs_sliceFirst(logs, userAddress, limit) ==
    LET sorted == slice0(sortByTimestampDesc(logs), limit)
    IN IF userAddress # NoUser
       THEN SelectSeq(sorted, LAMBDA e : toLowerCase(e.userAddress)
                                           = toLowerCase(userAddress))
       ELSE sorted

\* getSecurityAuditLogs over the audit log logs
QueryLogs(logs, userAddress, limit) ==
    LET sorted == sortByTimestampDesc(logs)
    IN slice0(IF userAddress # NoUser
              THEN SelectSeq(sorted, LAMBDA e : toLowerCase(e.userAddress)
                                                  = toLowerCase(userAddress))
              ELSE sorted,
              limit)

getSecurityAuditLogs(userAddress, limit) == QueryLogs(auditLogs, userAddress, limit)

\* mutant: the field itself is sorted
AfterQuery_inPlace(logs) == sortByTimestampDesc(logs)

\* this.auditLogs after getSecurityAuditLogs: sort() works in place, on the copy that
\* [...this.auditLogs] made, and the field keeps its order
AfterQuery(logs) == logs

\* the limit of a call that gives none
DefaultLimit == 50

\* a caller queries the audit log; val is the list of the ids of the events returned
Query(userAddress, limit) ==
    /\ last' = Call("query", "ok",
                    [i \in DOMAIN getSecurityAuditLogs(userAddress, limit)
                        |-> getSecurityAuditLogs(userAddress, limit)[i].id])
    /\ auditLogs' = AfterQuery(auditLogs)
    /\ UNCHANGED <<uiVars, now, permissions, storedLogs, storedPermissions, permSeq,
                   auditSeq, writeFailures, granted>>

\* mutant: only the permissions granted to the user are listed
EffectivePermissions_granteeOnly(perms, t, userAddress) ==
    SelectSeq(perms,
              LAMBDA p : /\ toLowerCase(p.granteeAddress) = toLowerCase(userAddress)
                         /\ p.isActive
                         /\ p.expiresAt > t)

\* getUserPermissions over the permissions perms at time t
EffectivePermissions(perms, t, userAddress) ==
    SelectSeq(perms,
              LAMBDA p : /\ \/ toLowerCase(p.granterAddress) = toLowerCase(userAddress)
                            \/ toLowerCase(p.granteeAddress) = toLowerCase(userAddress)
                         /\ p.isActive
                         /\ p.expiresAt > t)

getUserPermissions(userAddress) == EffectivePermissions(permissions, now, userAddress)

\* a caller lists the permissions of a user; val is the list of the ids returned
ListPermissions(userAddress) ==
    /\ last' = Call("list", "ok",
                    [i \in DOMAIN getUserPermissions(userAddress)
                        |-> getUserPermissions(userAddress)[i].id])
    /\ UNCHANGED <<uiVars, now, auditLogs, permissions, storedLogs, storedPermissions, permSeq,
                   auditSeq, writeFailures, granted>>

\* mutant: failed events add to the score
ScoreSum_rewardFailures(recentLogs, permCount, t) ==
    100 + Len(SelectSeq(recentLogs, LAMBDA e : ~e.success)) * 2
        - Len(SelectSeq(recentLogs, LAMBDA e : e.riskLevel = "high")) * 5
        - (IF permCount > MaxFreePermissions THEN (permCount - MaxFreePermissions) * 3 ELSE 0)
        + (IF Len(SelectSeq(recentLogs, LAMBDA e : t - e.timestamp < WeekMs)) > 0
           THEN 5 ELSE 0)

\* mutant: the recency bonus is paid for every recent event
ScoreSum_bonusPerEvent(recentLogs, permCount, t) ==
    100 - Len(SelectSeq(recentLogs, LAMBDA e : ~e.success)) * 2
        - Len(SelectSeq(recentLogs, LAMBDA e : e.riskLevel = "high")) * 5
        - (IF permCount > MaxFreePermissions THEN (permCount - MaxFreePermissions) * 3 ELSE 0)
        + Len(SelectSeq(recentLogs, LAMBDA e : t - e.timestamp < WeekMs)) * 5

\* calculateSecurityScore: the sum before the final Math.max(0, Math.min(100, score)),
\* from the fetched events, the number of fetched permissions and Date.now()
ScoreSum(recentLogs, permCount, t) ==
    100 - Len(SelectSeq(recentLogs, LAMBDA e : ~e.success)) * 2
        - Len(SelectSeq(recentLogs, LAMBDA e : e.riskLevel = "high")) * 5
        - (IF permCount > MaxFreePermissions THEN (permCount - MaxFreePermissions) * 3 ELSE 0)
        + (IF Len(SelectSeq(recentLogs, LAMBDA e : t - e.timestamp < WeekMs)) > 0
           THEN 5 ELSE 0)

\* mutant: the score is capped at 100 only
Clamp_noFloor(score) == Min(100, score)

\* Math.max(0, Math.min(100, score))
Clamp(score) == Max(0, Min(100, score))

\* mutant: every event of the user is fetched
ScoreOf_allEvents(logs, perms, t, userAddress) ==
    Clamp(ScoreSum(QueryLogs(logs, userAddress, Len(logs)),
                   Len(EffectivePermissions(perms, t, userAddress)), t))

\* calculateSecurityScore over the audit log logs and the permissions perms at time t
ScoreOf(logs, perms, t, userAddress) ==
    Clamp(ScoreSum(QueryLogs(logs, userAddress, ScoreLogLimit),
                   Len(EffectivePermissions(perms, t, userAddress)), t))

UnclampedScore(userAddress) ==
    ScoreSum(getSecurityAuditLogs(userAddress, ScoreLogLimit),
             Len(getUserPermissions(userAddress)), now)

calculateSecurityScore(userAddress) == ScoreOf(auditLogs, permissions, now, userAddress)

\* a caller reads the score
Score(userAddress) ==
    /\ last' = Call("score", "ok", calculateSecurityScore(userAddress))
    /\ auditLogs' = AfterQuery(auditLogs)
    /\ UNCHANGED <<uiVars, now, permissions, storedLogs, storedPermissions, permSeq,
                   auditSeq, writeFailures, granted>>

\* the calls of one behaviour generate at most MaxPerms permission ids and MaxLog
\* audit ids
GrantsLeft == permSeq < MaxPerms
AuditsLeft(n) == auditSeq + n <= MaxLog

(***************************************************************************)
(* Spec: the service while localStorage accepts every write                *)
(***************************************************************************)
Grant ==
    /\ GrantsLeft
    /\ AuditsLeft(1)
    /\ \E g \in GrantInputs :
        GrantAccess(g[1], g[2], g[3], g[4], g[5], g[6], TRUE, TRUE)

Revoke ==
    /\ AuditsLeft(1)
    /\ \E r \in RevokeInputs :
        RevokeAccess(r[1], r[2], TRUE, TRUE)

Check ==
    /\ AuditsLeft(1)
    /\ \E c \in CheckInputs :
        CheckAccess(c[1], c[2], c[3], TRUE)

\* getUserPermissions(userAddress)
ListInputs == { "A" }

List == \E u \in ListInputs : ListPermissions(u)

Next ==
    \/ Tick
    \/ Grant
    \/ Revoke
    \/ Check
    \/ List
    \/ LoadStoredData

Spec == Init /\ [][Next]_vars

(***************************************************************************)
(* SpecQuota: localStorage.setItem may throw (quota exceeded)              *)
(***************************************************************************)
GrantQ ==
    /\ GrantsLeft
    /\ AuditsLeft(1)
    /\ \E g \in GrantInputsQ, permSaveOk, logSaveOk \in BOOLEAN :
        GrantAccess(g[1], g[2], g[3], g[4], g[5], g[6], permSaveOk, logSaveOk)

RevokeQ ==
    /\ AuditsLeft(1)
    /\ \E r \in RevokeInputsQ, permSaveOk, logSaveOk \in BOOLEAN :
        RevokeAccess(r[1], r[2], permSaveOk, logSaveOk)

CheckQ ==
    /\ AuditsLeft(1)
    /\ \E c \in CheckInputsQ, logSaveOk \in BOOLEAN :
        CheckAccess(c[1], c[2], c[3], logSaveOk)

\* encryptData(data, userAddress) and decryptData(encryptedData, userAddress)
EncryptInputsQ == { <<(<<109>>), "a">> }
DecryptInputsQ == { <<Ciphertext(<<109>>, "a", 0), "a">> }

EncryptQ ==
    /\ AuditsLeft(1)
    /\ \E e \in EncryptInputsQ, logSaveOk, catchSaveOk \in BOOLEAN :
        EncryptData(e[1], e[2], logSaveOk, catchSaveOk)
    /\ auditSeq' <= MaxLog

DecryptQ ==
    /\ AuditsLeft(1)
    /\ \E d \in DecryptInputsQ, logSaveOk, catchSaveOk \in BOOLEAN :
        DecryptData(d[1], d[2], logSaveOk, catchSaveOk)
    /\ auditSeq' <= MaxLog

NextQuota ==
    \/ Tick
    \/ GrantQ
    \/ RevokeQ
    \/ CheckQ
    \/ EncryptQ
    \/ DecryptQ
    \/ LoadStoredData

SpecQuota == Init /\ [][NextQuota]_vars

(***************************************************************************)
(* SpecScore: the score over longer histories.  A behaviour starts after   *)
(* earlier calls of the session, all made at time 0 with every write       *)
(* succeeding: successful decrypts by "a", then denied checks of "a", then *)
(* failed decrypts by "a", and grants by "a" to "B" for one week.          *)
(***************************************************************************)
MaxFailedDecrypts == 15     \* failed decrypts before the behaviour starts
MaxEarlierGrants == 11      \* grants before the behaviour starts
MaxWeeks == 1               \* the clock of SpecScore runs from 0 to MaxWeeks weeks
MaxScoreEvents == 2         \* audit events logged in a behaviour of SpecScore

EarlierLogs(nOk, nDenied, nFail) ==
    [k \in 1 .. nOk + nDenied + nFail |->
        IF k <= nOk
        THEN [id |-> -k, timestamp |-> 0, action |-> "Data Decrypted",
              userAddress |-> "a", resourceId |-> NoResource,
              success |-> TRUE, riskLevel |-> "low", details |-> NoDetails]
        ELSE IF k <= nOk + nDenied
        THEN [id |-> -k, timestamp |-> 0, action |-> "Access Check",
              userAddress |-> "a", resourceId |-> "rec1",
              success |-> FALSE, riskLevel |-> "medium",
              details |-> <<"Checked", "read", "permission">>]
        ELSE [id |-> -k, timestamp |-> 0, action |-> "Decryption Failed",
              userAddress |-> "a", resourceId |-> NoResource,
              success |-> FALSE, riskLevel |-> "high", details |-> ParseErrorMessage]]

\* the earlier histories: how many successful decrypts, denied checks, failed decrypts
EarlierHistories ==
    { <<0, 0, 0>>, <<0, 0, 1>>, <<0, 3, 1>>, <<0, 0, MaxFailedDecrypts>>,
      <<ScoreLogLimit - 1, 0, 0>>, <<ScoreLogLimit - 1, 0, 1>>,
      <<ScoreLogLimit - 1, 0, MaxFailedDecrypts>> }

\* a longer history of "a": failed decrypts two milliseconds before the behaviour
\* starts, then as many successful decrypts as the score fetches, one millisecond
\* before it starts
AgedLogs ==
    [k \in 1 .. MaxFailedDecrypts + ScoreLogLimit |->
        IF k <= MaxFailedDecrypts
        THEN [id |-> -k, timestamp |-> -2, action |-> "Decryption Failed",
              userAddress |-> "a", resourceId |-> NoResource,
              success |-> FALSE, riskLevel |-> "high", details |-> ParseErrorMessage]
        ELSE [id |-> -k, timestamp |-> -1, action |-> "Data Decrypted",
              userAddress |-> "a", resourceId |-> NoResource,
              success |-> TRUE, riskLevel |-> "low", details |-> NoDetails]]

EarlierAuditLogs == {EarlierLogs(h[1], h[2], h[3]) : h \in EarlierHistories} \cup {AgedLogs}

EarlierPermissions(n) ==
    [k \in 1 .. n |->
        [id |-> -k, granterAddress |-> "a", granteeAddress |-> "B",
         resourceId |-> "rec1", resourceType |-> "record", permissions |-> <<"read">>,
         expiresAt |-> WeekMs, createdAt |-> 0, isActive |-> TRUE]]

EarlierGrants(n) ==
    [k \in 1 .. n |->
        [id |-> -k, at |-> 0, hours |-> 7 * 24, granter |-> "a", grantee |-> "B",
         rid |-> "rec1", perms |-> <<"read">>]]

InitScore ==
    \E logs \in EarlierAuditLogs, nPerm \in {0, MaxEarlierGrants} :
        /\ now = 0
        /\ auditLogs = logs
        /\ permissions = EarlierPermissions(nPerm)
        /\ storedLogs = JSONstringify(auditLogs)
        /\ storedPermissions = JSONstringify(permissions)
        /\ permSeq = 0
        /\ auditSeq = 0
        /\ writeFailures = 0
        /\ granted = EarlierGrants(nPerm)
        /\ last = NoCall
        /\ InitUI

TickWeek ==
    /\ now + WeekMs <= MaxWeeks * WeekMs
    /\ now' = now + WeekMs
    /\ UNCHANGED <<uiVars, auditLogs, permissions, storedLogs, storedPermissions, permSeq, auditSeq,
                   writeFailures, granted, last>>

ScoreUsers == { "A" }
CheckInputsS == { <<"a", "rec1", "read">>, <<"b", "rec1", "read">> }
DecryptInputsS == { <<Garbage, "a">> }

CheckS ==
    /\ auditSeq < MaxScoreEvents
    /\ \E c \in CheckInputsS : CheckAccess(c[1], c[2], c[3], TRUE)

DecryptS ==
    /\ auditSeq < MaxScoreEvents
    /\ \E d \in DecryptInputsS : DecryptData(d[1], d[2], TRUE, TRUE)

ScoreS == \E u \in ScoreUsers : Score(u)

NextScore ==
    \/ Tick
    \/ TickWeek
    \/ CheckS
    \/ DecryptS
    \/ ScoreS

SpecScore == InitScore /\ [][NextScore]_vars

(***************************************************************************)
(* SpecCrypto: the encryption gateway while localStorage accepts every     *)
(* write.  decryptData is given a string that does not decode, or the      *)
(* ciphertext that the encryptData call before it returned.                *)
(***************************************************************************)
\* "m", "\u00e9" (Latin1) and "\u20ac" (not Latin1)
Messages == { <<109>>, <<233>>, <<8364>> }
\* encryptData(data, userAddress)
EncryptInputs == (Messages \X {"a"}) \cup { <<(<<109>>), "b">>, <<(<<109>>), NoUser>> }
\* decryptData(encryptedData, userAddress): the userAddress
DecryptUsers == {"a", "A", "b"}

\* the ciphertext returned by the call before, if that was an encryptData
Returned == IF last.op = "encrypt" /\ last.res = "ok" THEN {last.val} ELSE {}

EncryptC ==
    /\ AuditsLeft(1)
    /\ \E e \in EncryptInputs : EncryptData(e[1], e[2], TRUE, TRUE)

DecryptC ==
    /\ AuditsLeft(1)
    /\ \E c \in {Garbage} \cup Returned, u \in DecryptUsers : DecryptData(c, u, TRUE, TRUE)

NextCrypto ==
    \/ Tick
    \/ EncryptC
    \/ DecryptC

SpecCrypto == Init /\ [][NextCrypto]_vars

(***************************************************************************)
(* SpecSession: the start of a session.  The fields of the service are     *)
(* empty; localStorage holds what was left there before: nothing, a text   *)
(* that is not JSON, or the collections of an earlier session.             *)
(***************************************************************************)
MaxSessionEvents == 2       \* audit events logged in a behaviour of SpecSession

\* the audit log of an earlier session: more events than the default limit of a query
PriorLogs == EarlierLogs(DefaultLimit, 0, 1)
PriorPermissions == EarlierPermissions(1)

InitSession ==
    \E logsItem \in {NoItem, Malformed, JSONstringify(PriorLogs)},
       permissionsItem \in {NoItem, Malformed, JSONstringify(PriorPermissions)} :
        /\ now = 0
        /\ auditLogs = << >>
        /\ permissions = << >>
        /\ storedLogs = logsItem
        /\ storedPermissions = permissionsItem
        /\ permSeq = 0
        /\ auditSeq = 0
        /\ writeFailures = 0
        /\ granted = << >>
        /\ last = NoCall
        /\ InitUI

CheckInputsN == { <<"b", "rec1", "read">>, <<"A", "rec1", "read">> }
\* getSecurityAuditLogs(userAddress, limit); DefaultLimit stands for a call without limit
QueryInputs ==
    { <<NoUser, DefaultLimit>>, <<"A", DefaultLimit>>, <<"A", 1>>, <<"b", 2>>,
      <<NoUser, 0>>, <<"A", -1>> }

CheckN ==
    /\ auditSeq < MaxSessionEvents
    /\ \E c \in CheckInputsN : CheckAccess(c[1], c[2], c[3], TRUE)

QueryN == \E q \in QueryInputs : Query(q[1], q[2])

ListN == \E u \in ListInputs : ListPermissions(u)

ScoreN == \E u \in ScoreUsers : Score(u)

NextSession ==
    \/ Tick
    \/ LoadStoredData
    \/ CheckN
    \/ QueryN
    \/ ListN
    \/ ScoreN

SpecSession == InitSession /\ [][NextSession]_vars

(***************************************************************************)
(* SpecTabs: two sessions (tabs) on one localStorage.  The variables of    *)
(* the service are those of one tab; the other tab shows through the       *)
(* storage it writes.  Every write succeeds.                               *)
(***************************************************************************)
\* the other tab calls loadStoredData() and then revokeAccess(granter, pid), which
\* finds the permission: its memory is the stored collections, and it writes them back
\* with the permission inactive and its "Access Revoked" event appended
RevokeInOtherTab(granter, pid) ==
    LET perms == StoredArray(storedPermissions)
        logs == StoredArray(storedLogs)
        hits == {i \in DOMAIN perms : /\ perms[i].id = pid
                                       /\ perms[i].granterAddress = granter}
        i == CHOOSE h \in hits : \A j \in hits : h <= j
    IN /\ hits # {}
       /\ storedPermissions' = setItem(storedPermissions, Deactivate(perms, i), TRUE)
       /\ storedLogs' = setItem(storedLogs,
                                Append(logs, Audit(auditSeq, "Access Revoked", granter,
                                                   perms[i].resourceId, TRUE, "medium",
                                                   <<"Revoked access from",
                                                     perms[i].granteeAddress>>)),
                                TRUE)
       /\ auditSeq' = auditSeq + 1
       /\ last' = Call("revoke in the other tab", "ok", -1)
       /\ UNCHANGED <<uiVars, now, auditLogs, permissions, permSeq, writeFailures, granted>>

GrantT ==
    /\ GrantsLeft
    /\ AuditsLeft(1)
    /\ \E g \in GrantInputs : GrantAccess(g[1], g[2], g[3], g[4], g[5], g[6], TRUE, TRUE)

RevokeT ==
    /\ AuditsLeft(1)
    /\ \E r \in RevokeInputsQ : RevokeAccess(r[1], r[2], TRUE, TRUE)

OtherTabRevoke ==
    /\ AuditsLeft(1)
    /\ \E r \in RevokeInputsQ : RevokeInOtherTab(r[1], r[2])

NextTabs ==
    \/ Tick
    \/ GrantT
    \/ RevokeT
    \/ OtherTabRevoke
    \/ LoadStoredData

SpecTabs == Init /\ [][NextTabs]_vars

(***************************************************************************)
(* SpecRecords: the record encryption of Web3Service, as the add-record    *)
(* dialog and the record dialog call it.  A string is the sequence of its  *)
(* UTF-16 code units.                                                      *)
(***************************************************************************)
MaxDataLen == 4             \* the longest record text
MaxKeyLen == 2              \* the longest key

\* "a" and "b"
Letters == {97, 98}
StringsUpTo(n) == UNION {[1 .. m -> Letters] : m \in 0 .. n}
\* the texts that are encrypted: the strings of letters and "\u20ac", which is not Latin1
RecordTexts == StringsUpTo(MaxDataLen) \cup { <<8364>> }
\* the keys: the address of the patient, not empty
RecordKeys == StringsUpTo(MaxKeyLen) \ { << >> }

UnableToDecrypt == "Unable to decrypt"

\* btoa(text): the Base64 text of a string whose code units are all below 256, which
\* atob turns back into the string; btoa throws on any other string
btoa(str) == [wellFormed |-> Latin1(str), text |-> IF Latin1(str) THEN str ELSE << >>]

\* String.prototype.indexOf(key): the first position where key occurs in str, from 1;
\* 0 when it does not occur
indexOf(str, key) ==
    LET hits == {i \in 1 .. Len(str) - Len(key) + 1 :
                    SubSeq(str, i, i + Len(key) - 1) = key}
    IN IF hits = {} THEN 0 ELSE CHOOSE i \in hits : \A j \in hits : i <= j

\* String.prototype.replace(key, "") with a string pattern: the first occurrence of key
\* is removed
replace(str, key) ==
    LET i == indexOf(str, key)
    IN IF i = 0 THEN str
       ELSE SubSeq(str, 1, i - 1) \o SubSeq(str, i + Len(key), Len(str))

\* Web3Service.encryptData(data, key): btoa(data + key)
encryptData(data, key) == btoa(data \o key)

\* Web3Service.decryptData(encryptedData, key): atob, then replace(key, ""); the text
\* "Unable to decrypt" when atob throws
decryptData(encryptedData, key) ==
    IF encryptedData.wellFormed
    THEN Call("decryptData", "ok", replace(encryptedData.text, key))
    ELSE Call("decryptData", UnableToDecrypt, << >>)

\* the add-record dialog encrypts a text under the address of the patient; btoa throws
\* out of encryptData when the text is not Latin1
EncryptRecord(data, key) ==
    /\ last' = IF encryptData(data, key).wellFormed
               THEN Call("encryptData", "ok",
                         [data |-> data, key |-> key, encrypted |-> encryptData(data, key)])
               ELSE Call("encryptData", InvalidCharacter,
                         [data |-> data, key |-> key, encrypted |-> Garbage])
    /\ UNCHANGED <<uiVars, now, auditLogs, permissions, storedLogs, storedPermissions, permSeq,
                   auditSeq, writeFailures, granted>>

\* the record dialog decrypts what was stored, under the same address
DecryptRecord ==
    /\ last.op = "encryptData" /\ last.res = "ok"
    /\ last' = decryptData(last.val.encrypted, last.val.key)
    /\ UNCHANGED <<uiVars, now, auditLogs, permissions, storedLogs, storedPermissions, permSeq,
                   auditSeq, writeFailures, granted>>

EncryptR == \E data \in RecordTexts, key \in RecordKeys : EncryptRecord(data, key)

NextRecords ==
    \/ EncryptR
    \/ DecryptRecord

SpecRecords == Init /\ [][NextRecords]_vars

(***************************************************************************)
(* useWeb3: the wallet connection of one component                         *)
(***************************************************************************)
\* the accounts of the wallet
Accounts == {"A", "b"}
\* what eth_accounts and accountsChanged deliver: no account, or the selected one
AccountLists == { << >> } \cup { <<a>> : a \in Accounts }

\* the effect at mount: the accountsChanged listener is registered and checkConnection
\* takes the account that eth_accounts returns, if there is one
CheckConnection(h, accounts) ==
    /\ ~web3[h].mounted
    /\ web3' = [web3 EXCEPT ![h] =
                    IF Len(accounts) > 0
                    THEN [isConnected |-> TRUE, account |-> accounts[1], mounted |-> TRUE]
                    ELSE [@ EXCEPT !.mounted = TRUE]]
    /\ last' = Call("checkConnection", "ok", -1)
    /\ UNCHANGED <<now, serviceVars, storedAuth, auth, walletConnect>>

\* disconnect()
disconnect(w) == [w EXCEPT !.isConnected = FALSE, !.account = ""]

\* the wallet emits accountsChanged: the listener of every mounted hook runs
AccountsChanged(accounts) ==
    /\ \E h \in Hooks : web3[h].mounted
    /\ web3' = [h \in Hooks |->
                    IF ~web3[h].mounted THEN web3[h]
                    ELSE IF Len(accounts) = 0 THEN disconnect(web3[h])
                    ELSE [web3[h] EXCEPT !.account = accounts[1]]]
    /\ last' = Call("accountsChanged", "ok", -1)
    /\ UNCHANGED <<now, serviceVars, storedAuth, auth, walletConnect>>

(***************************************************************************)
(* useAuth                                                                 *)
(***************************************************************************)
DayMs == 24 * 60 * 60 * 1000

\* mutant: a record never expires
isValid_noExpiry(data, account, t) ==
    /\ toLowerCase(data.address) = toLowerCase(account)
    /\ data.authenticated

\* isValid of checkAuthentication, at Date.now() = t
isValid(data, account, t) ==
    /\ toLowerCase(data.address) = toLowerCase(account)
    /\ data.authenticated
    /\ t - data.timestamp < DayMs

\* JSON.parse(stored) gives null: reading data.address throws TypeError
ParsesToNull(item) == item.kind = "json" /\ "null" \in DOMAIN JSONparse(item)

\* checkAuthentication under the isConnected and account of the render, at Date.now() = t:
\* the item and the state it leaves
checkAuthentication(stored, isConnected, account, t) ==
    IF IsTruthy(stored) /\ isConnected /\ account # ""
    THEN IF /\ ~ParseThrows(stored)
            /\ ~ParsesToNull(stored)
            /\ isValid(JSONparse(stored), account, t)
         THEN [stored |-> stored, authData |-> JSONparse(stored), isAuthenticated |-> TRUE]
         ELSE [stored |-> NoItem, authData |-> null, isAuthenticated |-> FALSE]
    ELSE [stored |-> stored, authData |-> null, isAuthenticated |-> FALSE]

\* the effect "clear auth if wallet disconnected", applied to what checkAuthentication set
clearIfDisconnected(isConnected, r) ==
    IF ~isConnected THEN [r EXCEPT !.authData = null, !.isAuthenticated = FALSE] ELSE r

\* the effects of useAuth after the first render and after a render in which isConnected
\* or account changed: checkAuthentication, then the clearing effect
UseAuthEffects ==
    LET w == web3["useAuth"]
        r == clearIfDisconnected(w.isConnected,
                                 checkAuthentication(storedAuth, w.isConnected, w.account, now))
    IN /\ auth.deps # <<w.isConnected, w.account>>
       /\ storedAuth' = r.stored
       /\ auth' = [isAuthenticated |-> r.isAuthenticated, authData |-> r.authData,
                   isLoading |-> FALSE, deps |-> <<w.isConnected, w.account>>]
       /\ last' = Call("checkAuthentication", "ok", -1)
       /\ UNCHANGED <<now, serviceVars, web3, walletConnect>>

\* authenticate(address): setIsAuthenticated(true), then checkAuthentication(), whose
\* updates are the later ones of the batch
Authenticate ==
    LET w == web3["useAuth"]
        r == checkAuthentication(storedAuth, w.isConnected, w.account, now)
    IN /\ auth.deps = <<w.isConnected, w.account>>
       /\ storedAuth' = r.stored
       /\ auth' = [auth EXCEPT !.isAuthenticated = r.isAuthenticated,
                               !.authData = r.authData, !.isLoading = FALSE]
       /\ last' = Call("authenticate", "ok", -1)
       /\ UNCHANGED <<now, serviceVars, web3, walletConnect>>

\* logout()
Logout ==
    /\ auth.deps # NotRun
    /\ storedAuth' = NoItem
    /\ auth' = [auth EXCEPT !.isAuthenticated = FALSE, !.authData = null]
    /\ last' = Call("logout", "ok", -1)
    /\ UNCHANGED <<now, serviceVars, web3, walletConnect>>

(***************************************************************************)
(* SpecAuth: useAuth in a page that opens with whatever an earlier session *)
(* left in "healthchain_auth"                                              *)
(***************************************************************************)
\* the records of an earlier session: written up to a day before the page opens
StoredAuthData ==
    { [address |-> a, signature |-> "sig", timestamp |-> t, authenticated |-> f] :
        a \in {"a", "b"}, t \in {0, HourMs - DayMs, 0 - DayMs}, f \in BOOLEAN }
StoredAuthItems ==
    {NoItem, Malformed, JSONstringify(null)} \cup { JSONstringify(d) : d \in StoredAuthData }

InitAuth ==
    \E item \in StoredAuthItems :
        /\ now = 0
        /\ auditLogs = << >>
        /\ permissions = << >>
        /\ storedLogs = NoItem
        /\ storedPermissions = NoItem
        /\ permSeq = 0
        /\ auditSeq = 0
        /\ writeFailures = 0
        /\ granted = << >>
        /\ last = NoCall
        /\ web3 = [h \in Hooks |-> [isConnected |-> FALSE, account |-> "", mounted |-> FALSE]]
        /\ storedAuth = item
        /\ auth = [isAuthenticated |-> FALSE, authData |-> null, isLoading |-> TRUE,
                   deps |-> NotRun]
        /\ walletConnect = [authStep |-> "connect", authError |-> "",
                            isAuthenticating |-> FALSE, request |-> NoRequest,
                            deps |-> NotRun, timer |-> FALSE]

MountA == \E accounts \in AccountLists : CheckConnection("useAuth", accounts)
AccountsChangedA == \E accounts \in AccountLists : AccountsChanged(accounts)

NextAuth ==
    \/ Tick
    \/ MountA
    \/ AccountsChangedA
    \/ UseAuthEffects
    \/ Authenticate
    \/ Logout

SpecAuth == InitAuth /\ [][NextAuth]_vars

(***************************************************************************)
(* SpecConnect: the WalletConnect component.  A render commits the state   *)
(* and then runs the effect when one of its dependencies changed; the      *)
(* signature request of handleAuthentication is awaited across renders.    *)
(***************************************************************************)
SignatureRequired == "Authentication signature required"
QuotaMessage == "The quota has been exceeded."

\* Web3Service.signMessage: the signature, or null when there is no signer or the wallet
\* throws (the user rejects the request)
Signatures == {"sig", "null"}

\* connect(): eth_requestAccounts resolves with the selected account; << >> stands for
\* the request that is rejected, which nothing follows but the console message
connect(w, accounts) ==
    IF Len(accounts) > 0
    THEN [w EXCEPT !.isConnected = TRUE, !.account = accounts[1]]
    ELSE w

\* handleAuthentication up to its await of signMessage, called with the account of the
\* render at Date.now() = t
handleAuthentication(wc, account, t) ==
    IF account = "" THEN wc
    ELSE [wc EXCEPT !.isAuthenticating = TRUE, !.authError = "", !.authStep = "sign",
                    !.request = [account |-> account, timestamp |-> t]]

\* the effect with the dependencies [isConnected, account, authStep]: it runs after the
\* first render and after a render in which one of them changed
ConnectEffect ==
    LET w == web3["WalletConnect"]
        deps == <<w.isConnected, w.account, walletConnect.authStep>>
        ran == [walletConnect EXCEPT !.deps = deps]
    IN /\ walletConnect.deps # deps
       /\ walletConnect' =
              IF w.isConnected /\ w.account # "" /\ walletConnect.authStep = "connect"
              THEN handleAuthentication(ran, w.account, now)
              ELSE ran
       /\ last' = Call("useEffect", "ok", -1)
       /\ UNCHANGED <<now, serviceVars, web3, storedAuth, auth>>

\* the effect of the last render has run: React runs it before it handles a click
EffectsFlushed ==
    walletConnect.deps = <<web3["WalletConnect"].isConnected, web3["WalletConnect"].account,
                           walletConnect.authStep>>

\* the button "Connect MetaMask Wallet", shown while the wallet is not connected
ClickConnect(accounts) ==
    /\ web3["WalletConnect"].mounted
    /\ EffectsFlushed
    /\ ~web3["WalletConnect"].isConnected
    /\ walletConnect' = [walletConnect EXCEPT !.authError = ""]
    /\ web3' = [web3 EXCEPT !["WalletConnect"] = connect(@, accounts)]
    /\ last' = Call("click Connect", "ok", -1)
    /\ UNCHANGED <<now, serviceVars, storedAuth, auth>>

\* the two buttons of the connected view are shown while isAuthenticating is false and
\* authStep is not "complete"
ButtonsShown ==
    /\ EffectsFlushed
    /\ web3["WalletConnect"].isConnected
    /\ ~walletConnect.isAuthenticating
    /\ walletConnect.authStep # "complete"

\* the button "Authenticate Identity"
ClickAuthenticate ==
    /\ ButtonsShown
    /\ walletConnect' = handleAuthentication(walletConnect, web3["WalletConnect"].account, now)
    /\ last' = Call("click Authenticate", "ok", -1)
    /\ UNCHANGED <<now, serviceVars, web3, storedAuth, auth>>

\* the button "Disconnect Wallet": handleDisconnect
ClickDisconnect ==
    /\ ButtonsShown
    /\ web3' = [web3 EXCEPT !["WalletConnect"] = disconnect(@)]
    /\ storedAuth' = NoItem
    /\ walletConnect' = [walletConnect EXCEPT !.authStep = "connect", !.authError = ""]
    /\ last' = Call("click Disconnect", "ok", -1)
    /\ UNCHANGED <<now, serviceVars, auth>>

\* handleAuthentication from the point where signMessage settles.  The wallet answers
\* after the render that shows "sign"; only the null of a missing signer can come before
\* that render.  localStorage.setItem stores the record or throws (ok is false).
SignatureSettles(signature, ok) ==
    LET r == walletConnect.request
        authData == [address |-> r.account, signature |-> signature,
                     timestamp |-> r.timestamp, authenticated |-> TRUE]
        done == [walletConnect EXCEPT !.isAuthenticating = FALSE, !.request = NoRequest]
    IN /\ r # NoRequest
       /\ signature # "null" => EffectsFlushed
       /\ (signature # "null" /\ ~ok) => writeFailures < MaxWriteFailures
       /\ IF signature = "null"
          THEN /\ walletConnect' = [done EXCEPT !.authError = SignatureRequired,
                                                !.authStep = "connect"]
               /\ last' = Call("signMessage", "null", -1)
               /\ UNCHANGED <<storedAuth, writeFailures>>
          ELSE IF ok
          THEN /\ storedAuth' = JSONstringify(authData)
               /\ walletConnect' = [done EXCEPT !.authStep = "complete", !.timer = TRUE]
               /\ last' = Call("signMessage", "ok", -1)
               /\ UNCHANGED writeFailures
          ELSE /\ writeFailures' = writeFailures + 1
               /\ walletConnect' = [done EXCEPT !.authError = QuotaMessage,
                                                !.authStep = "connect"]
               /\ last' = Call("signMessage", QuotaExceeded, -1)
               /\ UNCHANGED storedAuth
       /\ UNCHANGED <<now, auditLogs, permissions, storedLogs, storedPermissions, permSeq,
                      auditSeq, granted, web3, auth>>

\* the timer of one second set on completion: onAuthenticated(account)
OnAuthenticated ==
    /\ walletConnect.timer
    /\ walletConnect' = [walletConnect EXCEPT !.timer = FALSE]
    /\ last' = Call("onAuthenticated", "ok", -1)
    /\ UNCHANGED <<now, serviceVars, web3, storedAuth, auth>>

MountW == \E accounts \in AccountLists : CheckConnection("WalletConnect", accounts)
AccountsChangedW == \E accounts \in AccountLists : AccountsChanged(accounts)
ClickConnectW == \E accounts \in AccountLists : ClickConnect(accounts)
SignatureSettlesW == \E signature \in Signatures, ok \in BOOLEAN : SignatureSettles(signature, ok)

NextConnect ==
    \/ Tick
    \/ MountW
    \/ AccountsChangedW
    \/ ClickConnectW
    \/ ConnectEffect
    \/ ClickAuthenticate
    \/ ClickDisconnect
    \/ SignatureSettlesW
    \/ OnAuthenticated

SpecConnect == Init /\ [][NextConnect]_vars

(***************************************************************************)
(* Properties                                                              *)
(***************************************************************************)
\* AccessPermission["permissions"][0]
PermissionNames == {"read", "write", "share", "delete"}

\* what check(u, rid, p) answers after the step
hasAccessNext(u, rid, p) == Len(ValidOf(permissions', now', u, rid, p)) > 0

\* two spellings of one principal
SameAddress(x, y) == x = y \/ {x, y} = {"a", "A"} \/ {x, y} = {"b", "B"}

Held(id) == \E i \in DOMAIN permissions : permissions[i].id = id
Effective(id) ==
    \E i \in DOMAIN permissions :
        /\ permissions[i].id = id
        /\ permissions[i].isActive
        /\ permissions[i].expiresAt > now
LastAudit == auditLogs[Len(auditLogs)]

\* C1: right after a grant whose permissions contain p, check(grantee, resourceId, p)
\* is true; right after a successful revoke of a permission id, check(grantee,
\* resourceId, p) is false for the permission's grantee, resource and every p in it.
C1_GrantThenRevoke ==
    [][ /\ \A g \in GrantInputs : \A p \in PermissionNames :
             (GrantAccess(g[1], g[2], g[3], g[4], g[5], g[6], TRUE, TRUE) /\ includes(g[5], p))
                 => hasAccessNext(g[2], g[3], p)
        /\ \A r \in RevokeInputs : \A i \in DOMAIN permissions : \A p \in PermissionNames :
             ( /\ RevokeAccess(r[1], r[2], TRUE, TRUE)
               /\ last'.res = "ok"
               /\ permissions[i].id = r[2]
               /\ includes(permissions[i].permissions, p) )
                 => ~hasAccessNext(permissions[i].granteeAddress, permissions[i].resourceId, p)
      ]_vars

\* C2: a permission granted with ttlHours = h is counted by no check once the clock
\* has reached the time of the grant plus h hours, whether or not it was revoked.
C2_ExpiresWithoutRevoke ==
    \A k \in DOMAIN granted :
        now >= granted[k].at + granted[k].hours * HourMs
            => \A c \in CheckInputs :
                 LET valid == ValidPermissions(c[1], c[2], c[3])
                 IN \A i \in DOMAIN valid : valid[i].id # granted[k].id

\* C2 witness: a check by the grantee has just returned false for a permission that
\* was granted for an hour or more, is still active, and has run out.
C2_Witness ==
    /\ last.op = "check" /\ last.res = "false"
    /\ Len(auditLogs) > 0
    /\ LastAudit.userAddress = "b" /\ LastAudit.resourceId = "rec1"
    /\ LastAudit.timestamp = now
    /\ \E k \in DOMAIN granted : \E i \in DOMAIN permissions :
          /\ permissions[i].id = granted[k].id
          /\ granted[k].hours >= 1
          /\ granted[k].grantee = "B" /\ granted[k].rid = "rec1"
          /\ includes(granted[k].perms, "read")
          /\ permissions[i].isActive
          /\ now >= granted[k].at + granted[k].hours * HourMs

\* C3: a revoke whose caller is not the granter of the permission with that id throws
\* "Permission not found or unauthorized" and changes no permission, so every check
\* answers as before.
C3_RevokeByOtherFails ==
    [][ \A r \in RevokeInputs :
          ( /\ RevokeAccess(r[1], r[2], TRUE, TRUE)
            /\ \E i \in DOMAIN permissions :
                  permissions[i].id = r[2] /\ permissions[i].granterAddress # r[1] )
              => /\ last'.res = NotFoundOrUnauthorized
                 /\ permissions' = permissions
                 /\ storedPermissions' = storedPermissions
                 /\ \A c \in CheckInputs :
                      hasAccessNext(c[1], c[2], c[3]) = hasAccess(c[1], c[2], c[3])
      ]_vars

\* C3 witness: a revoke was refused although every permission id it can name exists,
\* and a permission is still effective for its grantee.
C3_Witness ==
    /\ last.op = "revoke" /\ last.res = NotFoundOrUnauthorized
    /\ Len(permissions) = MaxPerms
    /\ \A r \in RevokeInputs : Held(r[2])
    /\ \E c \in CheckInputs : hasAccess(c[1], c[2], c[3])

\* C4: a permission that is revoked or has expired is not effective in the next state,
\* whichever call or clock advance comes next.
C4_NeverEffectiveAgain ==
    [][ \A id \in 0 .. MaxPerms - 1 :
          (Held(id) /\ ~Effective(id))
              => ~\E i \in DOMAIN permissions' :
                     /\ permissions'[i].id = id
                     /\ permissions'[i].isActive
                     /\ permissions'[i].expiresAt > now'
      ]_vars

C6_GrantRejectsInvalid ==
    [][ \A g \in GrantInputs :
          ( /\ GrantAccess(g[1], g[2], g[3], g[4], g[5], g[6], TRUE, TRUE)
            /\ (g[5] = << >> \/ g[6] <= 0) )
              => /\ last'.res = "throws InvalidArgument"
                 /\ permissions' = permissions
      ]_vars

\* C7: every stored permission has expiresAt > createdAt.
C7_ExpiresAfterCreated ==
    \A i \in DOMAIN permissions : permissions[i].expiresAt > permissions[i].createdAt

\* C8 as claimed: a revoke by the granter of a permission that is already revoked throws
\* "Permission not found or unauthorized" and logs nothing.
C8_SecondRevokeFails ==
    [][ \A r \in RevokeInputs :
          ( /\ RevokeAccess(r[1], r[2], TRUE, TRUE)
            /\ \E i \in DOMAIN permissions :
                  /\ permissions[i].id = r[2]
                  /\ permissions[i].granterAddress = r[1]
                  /\ ~permissions[i].isActive )
              => /\ last'.res = NotFoundOrUnauthorized
                 /\ auditLogs' = auditLogs
      ]_vars

\* C8 as amended: a revoke by the granter of a permission that is already revoked
\* succeeds again: it leaves the permissions as they are and logs one more
\* "Access Revoked" event of the granter.
C8_SecondRevokeSucceeds ==
    [][ \A r \in RevokeInputs :
          ( /\ RevokeAccess(r[1], r[2], TRUE, TRUE)
            /\ \E i \in DOMAIN permissions :
                  /\ permissions[i].id = r[2]
                  /\ permissions[i].granterAddress = r[1]
                  /\ ~permissions[i].isActive )
              => /\ last'.res = "ok"
                 /\ permissions' = permissions
                 /\ Len(auditLogs') = Len(auditLogs) + 1
                 /\ auditLogs'[Len(auditLogs')].action = "Access Revoked"
                 /\ auditLogs'[Len(auditLogs')].userAddress = r[1]
                 /\ auditLogs'[Len(auditLogs')].success
      ]_vars

\* C8 witness: the one permission granted so far has been revoked twice in a row.
C8_Witness ==
    /\ last.op = "revoke" /\ last.res = "ok"
    /\ permSeq = 1
    /\ Len(auditLogs) = 3
    /\ auditLogs[2].action = "Access Revoked"
    /\ auditLogs[3].action = "Access Revoked"
    /\ ~permissions[1].isActive

Principals == {"a", "A", "b", "B"}

\* the audit events of a principal, in any letter case
EventsOf(u) == SelectSeq(auditLogs, LAMBDA e : SameAddress(e.userAddress, u))

\* the step appends one event of principal u that failed or is high-risk, and u has
\* as many effective permissions after it as before
AppendsBadEventOf(u) ==
    /\ Len(auditLogs') = Len(auditLogs) + 1
    /\ SubSeq(auditLogs', 1, Len(auditLogs)) = auditLogs
    /\ SameAddress(auditLogs'[Len(auditLogs')].userAddress, u)
    /\ (~auditLogs'[Len(auditLogs')].success \/ auditLogs'[Len(auditLogs')].riskLevel = "high")
    /\ Len(EffectivePermissions(permissions', now', u))
         = Len(EffectivePermissions(permissions, now, u))

\* C9: the score of every principal is an integer from 0 to 100.
C9_ScoreInRange == \A u \in Principals : calculateSecurityScore(u) \in 0 .. 100

\* C9 witness: score("A") has just returned 0 for a history whose penalties bring the
\* sum below 0.
C9_Witness ==
    /\ last.op = "score" /\ last.val = 0
    /\ UnclampedScore("A") < 0
    /\ calculateSecurityScore("b") > 0

\* C10 as claimed: appending one more failed or high-risk event of a principal never
\* raises that principal's score.
C10_ScoreMonotone ==
    [][ \A u \in Principals :
          AppendsBadEventOf(u) => ScoreOf(auditLogs', permissions', now', u)
                   <= ScoreOf(auditLogs, permissions, now, u)
      ]_vars

\* C10 as amended: appending one more failed or high-risk event of a principal never
\* raises that principal's score when the principal has fewer than 100 events and one
\* of them is less than 7 days old.
C10_ScoreMonotoneWhenRecent ==
    [][ \A u \in Principals :
          ( /\ AppendsBadEventOf(u)
            /\ Len(EventsOf(u)) < ScoreLogLimit
            /\ \E i \in DOMAIN auditLogs :
                  /\ SameAddress(auditLogs[i].userAddress, u)
                  /\ now - auditLogs[i].timestamp < WeekMs )
              => ScoreOf(auditLogs', permissions', now', u)
                   <= ScoreOf(auditLogs, permissions, now, u)
      ]_vars

\* C10 witness: a failed decryption by "a" has just been appended to a history of fewer
\* than 100 events of "a", an earlier one of them less than 7 days old, and the score
\* of "a" is below 100.
C10_Witness ==
    /\ last.op = "decrypt" /\ last.res = DecryptFailed
    /\ LastAudit.userAddress = "a"
    /\ LastAudit.action = "Decryption Failed"
    /\ Len(EventsOf("a")) < ScoreLogLimit
    /\ \E i \in 1 .. Len(auditLogs) - 1 :
          /\ auditLogs[i].userAddress = "a"
          /\ now - auditLogs[i].timestamp < WeekMs
    /\ calculateSecurityScore("a") \in 1 .. 99

\* the terms of the score over the fetched events f, the permissions perms and the
\* time t
FailedCount(f) == Cardinality({i \in DOMAIN f : ~f[i].success})
HighCount(f) == Cardinality({i \in DOMAIN f : f[i].riskLevel = "high"})
EffectiveCount(perms, t, u) ==
    Cardinality({i \in DOMAIN perms :
                    /\ \/ SameAddress(perms[i].granterAddress, u)
                       \/ SameAddress(perms[i].granteeAddress, u)
                    /\ perms[i].isActive
                    /\ perms[i].expiresAt > t})
RecencyBonus(f, t) == IF \E i \in DOMAIN f : t - f[i].timestamp < WeekMs THEN 5 ELSE 0
\* the fetched events of u are those of query(u, 100)
Formula(u) ==
    LET f == getSecurityAuditLogs(u, ScoreLogLimit)
        P == EffectiveCount(permissions, now, u)
    IN 100 - 2 * FailedCount(f) - 5 * HighCount(f)
           - 3 * (IF P > 10 THEN P - 10 ELSE 0)
           + RecencyBonus(f, now)

\* C11: score(u) = clamp to 0..100 of 100 - 2F - 5H - 3 max(0, P - 10) + B, with F the
\* failed and H the high-risk events among the fetched events of u, P the effective
\* permissions of u as granter or grantee, and B = 5 when a fetched event is less than
\* 7 days old, else 0.
C11_ScoreFormula ==
    \A u \in Principals :
        LET sum == Formula(u)
        IN calculateSecurityScore(u) = (IF sum < 0 THEN 0 ELSE IF sum > 100 THEN 100 ELSE sum)

\* C11 witness: score("A") has just returned 87 for three denied checks and one failed
\* decryption of "a", all a week old, and no permission.
C11_Witness ==
    /\ last.op = "score" /\ last.val = 87
    /\ Len(auditLogs) = 4
    /\ FailedCount(EventsOf("A")) = 4 /\ HighCount(EventsOf("A")) = 1
    /\ RecencyBonus(EventsOf("A"), now) = 0
    /\ permissions = << >>

\* C12: the audit log is append-only: every event of the log is in the log after any
\* step, with all its fields as they were.
C12_AppendOnly ==
    [][ \A i \in DOMAIN auditLogs :
          \E j \in DOMAIN auditLogs' : auditLogs'[j] = auditLogs[i]
      ]_vars

\* a call whose audit-log write throws (its permission write, if any, having succeeded)
AuditWriteFails ==
    \/ \E g \in GrantInputsQ : GrantAccess(g[1], g[2], g[3], g[4], g[5], g[6], TRUE, FALSE)
    \/ \E r \in RevokeInputsQ : FindPermission(r[1], r[2]) # 0
                                  /\ RevokeAccess(r[1], r[2], TRUE, FALSE)
    \/ \E c \in CheckInputsQ : CheckAccess(c[1], c[2], c[3], FALSE)
    \/ \E e \in EncryptInputsQ, catchSaveOk \in BOOLEAN :
          EncryptData(e[1], e[2], FALSE, catchSaveOk)
    \/ \E d \in DecryptInputsQ, catchSaveOk \in BOOLEAN :
          DecryptData(d[1], d[2], FALSE, catchSaveOk)

\* C13: when the write of the audit log fails, the event stays in the in-memory log
\* and the call that logged it still completes with its normal result.
C13_LoggingNeverFails ==
    [][ AuditWriteFails
          => /\ Len(auditLogs') = Len(auditLogs) + 1
             /\ last'.res \in {"ok", "true", "false"}
      ]_vars

\* C14: check never fails and appends exactly one "Access Check" event of the checking
\* principal, whose success is the returned boolean and whose riskLevel is low when
\* access is granted and medium when it is denied.
C14_CheckLogsOneEvent ==
    [][ \A c \in CheckInputsQ : \A logSaveOk \in BOOLEAN :
          CheckAccess(c[1], c[2], c[3], logSaveOk)
              => /\ last'.res \in {"true", "false"}
                 /\ Len(auditLogs') = Len(auditLogs) + 1
                 /\ SubSeq(auditLogs', 1, Len(auditLogs)) = auditLogs
                 /\ auditLogs'[Len(auditLogs')].action = "Access Check"
                 /\ auditLogs'[Len(auditLogs')].userAddress = c[1]
                 /\ auditLogs'[Len(auditLogs')].success = (last'.res = "true")
                 /\ auditLogs'[Len(auditLogs')].riskLevel
                      = (IF last'.res = "true" THEN "low" ELSE "medium")
      ]_vars

\* C15: every permission of the store stays in the store with its fields other than
\* isActive unchanged, and isActive changes only from true to false and only in a
\* successful revoke.
C15_PermissionsOnlyRevoked ==
    [][ \A i \in DOMAIN permissions :
          \E j \in DOMAIN permissions' :
              /\ [permissions'[j] EXCEPT !.isActive = TRUE]
                   = [permissions[i] EXCEPT !.isActive = TRUE]
              /\ permissions'[j].isActive # permissions[i].isActive
                   => /\ permissions[i].isActive
                      /\ last'.op = "revoke" /\ last'.res = "ok"
      ]_vars

\* the permission p is effective now and names u, in any letter case, as granter or
\* grantee
ListedFor(p, u) ==
    /\ p.isActive
    /\ p.expiresAt > now
    /\ SameAddress(p.granterAddress, u) \/ SameAddress(p.granteeAddress, u)

\* C16: listForPrincipal(u) returns exactly the permissions that are active, expire
\* after now and have u as granter or grantee in any letter case, each once.
C16_ListExactlyEffective ==
    \A u \in Principals :
        LET listed == getUserPermissions(u)
        IN /\ \A i \in DOMAIN permissions :
                 ListedFor(permissions[i], u)
                     <=> \E j \in DOMAIN listed : listed[j] = permissions[i]
           /\ \A j \in DOMAIN listed : \E i \in DOMAIN permissions : permissions[i] = listed[j]
           /\ Len(listed) = Cardinality({i \in DOMAIN permissions : ListedFor(permissions[i], u)})

\* C16 witness: the list of "A" has just returned one permission, granted by "a" and
\* effective, while another permission that names "a" is revoked and not returned.
C16_Witness ==
    /\ last.op = "list" /\ Len(last.val) = 1
    /\ \E i, j \in DOMAIN permissions :
          /\ permissions[i].id = last.val[1]
          /\ permissions[i].granterAddress = "a"
          /\ ListedFor(permissions[i], "A")
          /\ permissions[j].id # last.val[1]
          /\ "a" \in {permissions[j].granterAddress, permissions[j].granteeAddress}
          /\ ~permissions[j].isActive
          /\ permissions[j].expiresAt > now

\* C17: principals are compared in any letter case in every operation; for revoke, a
\* revoke whose caller is the granter of the permission written in another letter case
\* succeeds and deactivates the permission.
C17_CaseInsensitiveEverywhere ==
    [][ \A r \in RevokeInputs : \A i \in DOMAIN permissions :
          ( /\ RevokeAccess(r[1], r[2], TRUE, TRUE)
            /\ permissions[i].id = r[2]
            /\ SameAddress(permissions[i].granterAddress, r[1]) )
              => /\ last'.res = "ok"
                 /\ ~permissions'[i].isActive
      ]_vars

\* C18: for every string m and principal u, encrypt(m, u) returns a ciphertext and
\* decrypt of that ciphertext under u returns m.
C18_RoundTrip ==
    [][ \A e \in EncryptInputs :
          EncryptData(e[1], e[2], TRUE, TRUE)
              => /\ last'.res = "ok"
                 /\ Decoded(last'.val, e[2]) = Call("decrypt", "ok", e[1])
      ]_vars

\* C19: decrypt of the ciphertext that encrypt returned for principal A, under a
\* principal B other than A, throws "Failed to decrypt data" and returns nothing.
C19_WrongPrincipalFails ==
    [][ \A u \in DecryptUsers :
          ( /\ last.op = "encrypt" /\ last.res = "ok"
            /\ u # LastAudit.userAddress
            /\ DecryptData(last.val, u, TRUE, TRUE) )
              => /\ last'.res = DecryptFailed
                 /\ last'.val = -1
      ]_vars

\* C19 witness: "a" has encrypted, and the decryption of the returned ciphertext under
\* "b" has just failed on the key.
C19_Witness ==
    /\ last.op = "decrypt" /\ last.res = DecryptFailed
    /\ Len(auditLogs) >= 2
    /\ auditLogs[Len(auditLogs) - 1].action = "Data Encrypted"
    /\ auditLogs[Len(auditLogs) - 1].userAddress = "a"
    /\ LastAudit.action = "Decryption Failed"
    /\ LastAudit.userAddress = "b"
    /\ LastAudit.details = InvalidKeyMessage

\* C20: every decrypt call appends exactly one audit event: "Decryption Failed" with
\* riskLevel high, success false and details when it throws "Failed to decrypt data"
\* (wrong key or corrupted payload), and riskLevel low, success true when it returns.
C20_DecryptLogsOneEvent ==
    [][ \A d \in DecryptInputsQ : \A logSaveOk, catchSaveOk \in BOOLEAN :
          DecryptData(d[1], d[2], logSaveOk, catchSaveOk)
              => /\ Len(auditLogs') = Len(auditLogs) + 1
                 /\ SubSeq(auditLogs', 1, Len(auditLogs)) = auditLogs
                 /\ last'.res \in {"ok", DecryptFailed}
                 /\ last'.res = "ok"
                      => /\ auditLogs'[Len(auditLogs')].success
                         /\ auditLogs'[Len(auditLogs')].riskLevel = "low"
                 /\ last'.res = DecryptFailed
                      => /\ ~auditLogs'[Len(auditLogs')].success
                         /\ auditLogs'[Len(auditLogs')].riskLevel = "high"
                         /\ auditLogs'[Len(auditLogs')].details # NoDetails
                         /\ ~(d[1].wellFormed /\ d[1].key = KeySlice(d[2]))
      ]_vars

\* the event e is one that a query for u selects
Selected(e, u) == u = NoUser \/ SameAddress(e.userAddress, u)

\* C21: query(u, limit) returns events of the log that u selects (all events when no
\* principal is given), each once, latest first, as many as there are up to limit, and
\* none that is older than an event it leaves out; the limit of a call without one
\* is 50.
C21_QueryFilteredSortedTruncated ==
    \A u \in {NoUser} \cup Principals : \A limit \in {1, 2, DefaultLimit} :
        LET r == getSecurityAuditLogs(u, limit)
            chosen == {i \in DOMAIN auditLogs : Selected(auditLogs[i], u)}
        IN /\ DefaultLimit = 50
           /\ \A j \in DOMAIN r : \E i \in chosen : auditLogs[i] = r[j]
           /\ \A j, k \in DOMAIN r : j < k => /\ r[j].timestamp >= r[k].timestamp
                                              /\ r[j].id # r[k].id
           /\ Len(r) = Min(limit, Cardinality(chosen))
           /\ \A i \in chosen :
                 (\A j \in DOMAIN r : r[j].id # auditLogs[i].id)
                     => \A j \in DOMAIN r : auditLogs[i].timestamp <= r[j].timestamp

\* C21 witness: a query of "A" without limit has just returned 50 events, the latest
\* first, out of the more than 50 events of "a" and "A", the log holding an event of
\* "b" as well.
C21_Witness ==
    /\ last.op = "query" /\ Len(last.val) = DefaultLimit
    /\ Len(EventsOf("A")) > DefaultLimit
    /\ Len(EventsOf("b")) > 0
    /\ LastAudit.userAddress = "A"
    /\ LastAudit.timestamp > 0
    /\ last.val[1] = LastAudit.id

\* C22: a query whose limit is zero or negative throws InvalidArgument and returns no
\* events.
C22_QueryRejectsBadLimit ==
    [][ \A q \in QueryInputs :
          (Query(q[1], q[2]) /\ q[2] <= 0) => last'.res = "throws InvalidArgument"
      ]_vars

\* C23: loadStoredData never throws, and a collection whose stored item is absent or
\* is not JSON is empty after it.
C23_LoadNeverFails ==
    [][ LoadStoredData
          => /\ last'.res = "ok"
             /\ (~IsTruthy(storedLogs) \/ ParseThrows(storedLogs)) => auditLogs' = << >>
             /\ (~IsTruthy(storedPermissions) \/ ParseThrows(storedPermissions))
                   => permissions' = << >>
      ]_vars

\* the call before was a mutating operation that succeeded
LastMutated ==
    \/ last.op \in {"grant", "revoke", "encrypt", "decrypt"} /\ last.res = "ok"
    \/ last.op = "check" /\ last.res \in {"true", "false"}

\* C24: loadStoredData right after a loadStoredData, or right after a mutating
\* operation that succeeded, leaves the audit log and the permissions in memory as
\* they are.
C24_LoadIdempotent ==
    [][ (LoadStoredData /\ (last.op = "load" \/ LastMutated))
          => /\ auditLogs' = auditLogs
             /\ permissions' = permissions
      ]_vars

\* the step appends exactly one element to the audit log
LogsOne == /\ Len(auditLogs') = Len(auditLogs) + 1
           /\ SubSeq(auditLogs', 1, Len(auditLogs)) = auditLogs

\* C25: a grant that succeeds appends exactly one permission, active and made of the
\* arguments of the call, and appends exactly one audit event: "Access Granted",
\* riskLevel medium, success true, userAddress the granter.
C25_GrantAppendsOne ==
    [][ \A g \in GrantInputs :
          (last'.res = "ok" /\ GrantAccess(g[1], g[2], g[3], g[4], g[5], g[6], TRUE, TRUE))
              => /\ Len(permissions') = Len(permissions) + 1
                 /\ SubSeq(permissions', 1, Len(permissions)) = permissions
                 /\ permissions'[Len(permissions')].isActive
                 /\ permissions'[Len(permissions')].id = last'.val
                 /\ permissions'[Len(permissions')].granterAddress = g[1]
                 /\ permissions'[Len(permissions')].granteeAddress = g[2]
                 /\ permissions'[Len(permissions')].resourceId = g[3]
                 /\ permissions'[Len(permissions')].permissions = g[5]
                 /\ LogsOne
                 /\ auditLogs'[Len(auditLogs')].action = "Access Granted"
                 /\ auditLogs'[Len(auditLogs')].riskLevel = "medium"
                 /\ auditLogs'[Len(auditLogs')].success
                 /\ auditLogs'[Len(auditLogs')].userAddress = g[1]
                 /\ auditLogs'[Len(auditLogs')].resourceId = g[3]
      ]_vars

\* C25 witness: the second grant has just returned the id of the second permission,
\* which is active like the first, and the last audit event is its "Access Granted".
C25_Witness ==
    /\ last.op = "grant" /\ last.res = "ok"
    /\ Len(permissions) = 2
    /\ permissions[1].isActive /\ permissions[2].isActive
    /\ permissions[2].id = last.val
    /\ permissions[2].granterAddress = "b"
    /\ LastAudit.action = "Access Granted"
    /\ LastAudit.userAddress = "b"
    /\ Len(auditLogs) = 2

\* C26: a revoke that succeeds makes the permission with the given id inactive and
\* changes nothing else of it, leaves every other permission as it is, and appends
\* exactly one audit event: "Access Revoked", riskLevel medium, success true,
\* userAddress the granter.
C26_RevokeDeactivatesOne ==
    [][ \A r \in RevokeInputs :
          (last'.res = "ok" /\ RevokeAccess(r[1], r[2], TRUE, TRUE))
              => /\ DOMAIN permissions' = DOMAIN permissions
                 /\ Cardinality({i \in DOMAIN permissions : permissions[i].id = r[2]}) = 1
                 /\ \A i \in DOMAIN permissions :
                       IF permissions[i].id = r[2]
                       THEN /\ ~permissions'[i].isActive
                            /\ [permissions'[i] EXCEPT !.isActive = TRUE]
                                 = [permissions[i] EXCEPT !.isActive = TRUE]
                       ELSE permissions'[i] = permissions[i]
                 /\ LogsOne
                 /\ auditLogs'[Len(auditLogs')].action = "Access Revoked"
                 /\ auditLogs'[Len(auditLogs')].riskLevel = "medium"
                 /\ auditLogs'[Len(auditLogs')].success
                 /\ auditLogs'[Len(auditLogs')].userAddress = r[1]
      ]_vars

\* C26 witness: of two permissions, the revoke that has just succeeded made the first
\* inactive and left the second active, and the last audit event is its
\* "Access Revoked".
C26_Witness ==
    /\ last.op = "revoke" /\ last.res = "ok"
    /\ Len(permissions) = 2
    /\ ~permissions[1].isActive /\ permissions[2].isActive
    /\ LastAudit.action = "Access Revoked"
    /\ LastAudit.userAddress = permissions[1].granterAddress
    /\ Len(auditLogs) = 3

\* C27: a grant or a revoke whose write of the permission collection throws does not
\* return: the caller gets the error of the write, and no "Access Granted" or
\* "Access Revoked" event is logged.
C27_PermissionWriteFailureSurfaces ==
    [][ /\ \A g \in GrantInputsQ :
              GrantAccess(g[1], g[2], g[3], g[4], g[5], g[6], FALSE, TRUE)
                  => /\ last'.op = "grant" /\ last'.res = QuotaExceeded
                     /\ last'.val = -1
                     /\ auditLogs' = auditLogs
        /\ \A r \in RevokeInputsQ :
              (FindPermission(r[1], r[2]) # 0 /\ RevokeAccess(r[1], r[2], FALSE, TRUE))
                  => /\ last'.op = "revoke" /\ last'.res = QuotaExceeded
                     /\ auditLogs' = auditLogs
      ]_vars

\* C27 witness: a revoke has just thrown the error of its permission write: the
\* permission is inactive in memory and active in storage, and the last audit event
\* is still the "Access Granted" of the grant.
C27_Witness ==
    /\ last.op = "revoke" /\ last.res = QuotaExceeded
    /\ Len(permissions) = 1 /\ ~permissions[1].isActive
    /\ IsTruthy(storedPermissions)
    /\ JSONparse(storedPermissions)[1].isActive
    /\ Len(auditLogs) = 1
    /\ LastAudit.action = "Access Granted"

\* the store perms, taken as a whole at time t, holds a permission that lets u do p
\* on rid
GrantedBy(perms, t, u, rid, p) ==
    \E i \in DOMAIN perms :
        /\ SameAddress(perms[i].granteeAddress, u)
        /\ perms[i].resourceId = rid
        /\ perms[i].isActive
        /\ perms[i].expiresAt > t
        /\ \E k \in DOMAIN perms[i].permissions : perms[i].permissions[k] = p

C29_StoredIsWholeCollection ==
    LastMutated
        => /\ IsTruthy(storedLogs)
           /\ JSONparse(storedLogs) = auditLogs
           /\ last.op \in {"grant", "revoke"}
                 => /\ IsTruthy(storedPermissions)
                    /\ JSONparse(storedPermissions) = permissions

\* C29 witness: a revoke has just returned after an earlier call whose audit-log write
\* threw; storage holds both permissions and all three events, the one whose write
\* threw included.
C29_Witness ==
    /\ last.op = "revoke" /\ last.res = "ok"
    /\ writeFailures = 1
    /\ Len(permissions) = 2 /\ Len(auditLogs) = 3
    /\ JSONparse(storedPermissions) = permissions
    /\ JSONparse(storedLogs) = auditLogs

\* the timestamps that at least 100 events of u in logs are later than
OutdatedStamps(logs, u) ==
    {t \in {logs[i].timestamp : i \in DOMAIN logs} :
        Cardinality({j \in DOMAIN logs : /\ SameAddress(logs[j].userAddress, u)
                                         /\ logs[j].timestamp > t}) >= 100}

\* logs without the events of u that at least 100 events of u are later than
WithoutOutdated(logs, u) ==
    LET stamps == OutdatedStamps(logs, u)
    IN SelectSeq(logs, LAMBDA e : ~(SameAddress(e.userAddress, u) /\ e.timestamp \in stamps))

\* C30: the score returned for u is the score of the log without every event of u that
\* at least 100 events of u are later than: such an event adds no penalty and no bonus.
C30_OnlyLatestHundred ==
    [][ \A u \in ScoreUsers :
          Score(u) => last'.val = ScoreOf(WithoutOutdated(auditLogs, u), permissions, now, u)
      ]_vars

\* C30 witness: score("A") has just returned 98 for a log in which "a" has one failed
\* decryption among the latest 100 events, and more failed ones that 100 events are
\* later than.
C30_Witness ==
    /\ last.op = "score" /\ last.val = 98
    /\ Len(EventsOf("A")) > 100
    /\ LastAudit.action = "Decryption Failed" /\ LastAudit.timestamp >= 0
    /\ Len(WithoutOutdated(auditLogs, "A")) < Len(auditLogs)
    /\ FailedCount(EventsOf("A")) > FailedCount(WithoutOutdated(auditLogs, "A"))

\* the events of logs as a second service holds them when it has pushed the events of
\* one same timestamp in the opposite order
RECURSIVE EarliestFirstTiesReversed(_, _)
EarliestFirstTiesReversed(logs, stamps) ==
    IF stamps = {} THEN << >>
    ELSE LET t == CHOOSE x \in stamps : \A y \in stamps : x <= y
             same == SelectSeq(logs, LAMBDA e : e.timestamp = t)
         IN [k \in 1 .. Len(same) |-> same[Len(same) + 1 - k]]
                \o EarliestFirstTiesReversed(logs, stamps \ {t})
TiesReversed(logs) ==
    EarliestFirstTiesReversed(logs, {logs[i].timestamp : i \in DOMAIN logs})

\* C31: two services that hold the same audit events and the same permissions, pushed
\* in different orders, return the same score for every principal at the same time,
\* also when more than 100 events have one timestamp.
C31_ScoreOrderIndependent ==
    \A u \in Principals :
        ScoreOf(TiesReversed(auditLogs), permissions, now, u)
            = ScoreOf(auditLogs, permissions, now, u)

\* C32: deriveEncryptionKey fails with InvalidArgument for the empty principal, so
\* that encryptData for the empty principal returns no ciphertext; for any other
\* principal the key is the same on every call.
C32_DeriveKeyRejectsEmpty ==
    [][ \A e \in EncryptInputs :
          EncryptData(e[1], e[2], TRUE, TRUE)
              => /\ e[2] = NoUser => last'.res = "throws InvalidArgument"
                 /\ (e[2] # NoUser /\ last'.res = "ok")
                       => last'.val.key = KeySlice(e[2])
      ]_vars

\* C33: getSecurityAuditLogs, getUserPermissions and calculateSecurityScore leave the
\* audit log, in content and order, and the permissions as they are, in memory and in
\* storage; checkAccess leaves the permissions as they are and appends exactly one
\* event to the audit log.  (A step is the step of a call when it sets the outcome of
\* the call; a checkAccess step also takes a new event id.)
C33_ReadsChangeNothing ==
    [][ /\ (last' # last /\ last'.op \in {"query", "list", "score"})
              => /\ auditLogs' = auditLogs
                 /\ permissions' = permissions
                 /\ storedLogs' = storedLogs
                 /\ storedPermissions' = storedPermissions
        /\ (last'.op = "check" /\ auditSeq' # auditSeq)
              => /\ permissions' = permissions
                 /\ storedPermissions' = storedPermissions
                 /\ LogsOne
      ]_vars

\* C33 witness: a query has just returned the later of two events first, and the log
\* still lists the earlier one first; a permission is loaded.
C33_Witness ==
    /\ last.op = "query"
    /\ Len(last.val) = 2
    /\ Len(auditLogs) = 2
    /\ auditLogs[1].timestamp < auditLogs[2].timestamp
    /\ last.val = <<auditLogs[2].id, auditLogs[1].id>>
    /\ Len(permissions) = 1

\* C34: a grant or a revoke that fails (unknown id, wrong granter, or a write that
\* throws) leaves the permissions and the audit log in memory as they were.
C34_FailedCallChangesNothing ==
    [][ /\ \A g \in GrantInputsQ : \A permSaveOk, logSaveOk \in BOOLEAN :
              (GrantAccess(g[1], g[2], g[3], g[4], g[5], g[6], permSaveOk, logSaveOk)
                 /\ last'.res # "ok")
                  => /\ permissions' = permissions
                     /\ auditLogs' = auditLogs
        /\ \A r \in RevokeInputsQ : \A permSaveOk, logSaveOk \in BOOLEAN :
              (RevokeAccess(r[1], r[2], permSaveOk, logSaveOk) /\ last'.res # "ok")
                  => /\ permissions' = permissions
                     /\ auditLogs' = auditLogs
      ]_vars

\* the elements of a stored collection; none when the item is absent or is not JSON
StoredElements(item) ==
    IF IsTruthy(item) /\ ~ParseThrows(item)
    THEN {JSONparse(item)[i] : i \in DOMAIN JSONparse(item)}
    ELSE {}

\* C35: no call of a session, made before loadStoredData or after it, removes from
\* storage an audit event or a permission that was stored before the call.
C35_StoredDataKept ==
    [][ /\ \A e \in StoredElements(storedLogs) :
              \E f \in StoredElements(storedLogs') : f.id = e.id
        /\ \A p \in StoredElements(storedPermissions) :
              \E q \in StoredElements(storedPermissions') : q.id = p.id
      ]_vars

\* C36: of two tabs on one storage, a permission that is stored as revoked is never
\* stored as active again, whatever the tabs call afterwards.
C36_RevokeNeverUndone ==
    [][ \A p \in StoredElements(storedPermissions) :
          ~p.isActive => \A q \in StoredElements(storedPermissions') :
                            q.id = p.id => ~q.isActive
      ]_vars

\* C37: for every text d and every key k that is not empty, decryptData of what
\* Web3Service.encryptData returned for d and k, under k, returns d.  (Stated for the
\* texts that btoa accepts; for the others encryptData throws.)
C37_RecordRoundTrip ==
    [][ \A data \in RecordTexts, key \in RecordKeys :
          (Latin1(data) /\ EncryptRecord(data, key))
              => /\ last'.res = "ok"
                 /\ decryptData(last'.val.encrypted, key) = Call("decryptData", "ok", data)
      ]_vars

\* the item holds a record for the account that is less than 24 hours old at time t
ValidRecordFor(item, account, t) ==
    /\ item.kind = "json"
    /\ "address" \in DOMAIN item.text
    /\ toLowerCase(item.text.address) = toLowerCase(account)
    /\ item.text.authenticated = TRUE
    /\ t - item.text.timestamp < DayMs

\* C38: after checkAuthentication runs (from the effects of useAuth or from authenticate),
\* isAuthenticated is true only if the wallet is connected and the stored healthchain_auth
\* record has the address of the current account up to letter case, its authenticated flag
\* set and a timestamp less than 24 hours old; and when the wallet is connected and the
\* stored item is an invalid, expired or unparsable record, the item is removed and
\* isAuthenticated is false.
C38_CheckAuthentication ==
    [][ (UseAuthEffects \/ Authenticate)
            => LET w == web3["useAuth"]
               IN /\ auth'.isAuthenticated
                        => (w.isConnected /\ ValidRecordFor(storedAuth, w.account, now))
                  /\ (w.isConnected /\ IsTruthy(storedAuth)
                                    /\ ~ValidRecordFor(storedAuth, w.account, now))
                        => (storedAuth' = NoItem /\ ~auth'.isAuthenticated)
      ]_vars

\* checkAuthentication has accepted, for the account "A", a record stored under "a"
C38_Witness ==
    /\ last.op = "checkAuthentication"
    /\ auth.isAuthenticated
    /\ web3["useAuth"].account = "A"
    /\ auth.authData.address = "a"
    /\ storedAuth # NoItem

\* a signature request has failed: authStep is back at "connect" and authError is set
SignatureFailed == walletConnect.authStep = "connect" /\ walletConnect.authError # ""

\* the wallet is as the effect last saw it: no connection or account change is pending
WalletAsSeen ==
    /\ Len(walletConnect.deps) = 3
    /\ walletConnect.deps[1] = web3["WalletConnect"].isConnected
    /\ walletConnect.deps[2] = web3["WalletConnect"].account

\* C39: in WalletConnect, a failed or rejected signature request puts authStep back to
\* "connect" with authError set, and from there, while the wallet stays as it is, authStep
\* leaves "connect" and a signature is requested only by a click on Authenticate
\* (Disconnect keeps authStep at "connect");
\* and authStep becomes "complete" only in the step in which a signature that is not
\* null has been obtained and healthchain_auth has been stored with it.
C39_NoAutomaticSignatureRequest ==
    [][ /\ (last'.op = "signMessage" /\ last'.res # "ok") => SignatureFailed'
        /\ (SignatureFailed /\ WalletAsSeen
                            /\ (walletConnect'.authStep # "connect"
                                  \/ (walletConnect.request = NoRequest
                                        /\ walletConnect'.request # NoRequest)))
              => last'.op = "click Authenticate"
        /\ (walletConnect.authStep # "complete" /\ walletConnect'.authStep = "complete")
              => /\ last'.op = "signMessage" /\ last'.res = "ok"
                 /\ storedAuth'.kind = "json"
                 /\ storedAuth'.text.signature # "null"
      ]_vars

====
